---- MODULE Spec2Model ----
(***************************************************************************)
(* A model of src/request.rs: the Request value, its constructor           *)
(* Request::new, and the executor Request::send_request together with the  *)
(* transport (reqwest) it drives.                                          *)
(*                                                                         *)
(* Strings that the code inspects character by character (header names and *)
(* header values) are sequences of one-character strings.  Strings that    *)
(* the code only hands on (urls, parameter names and values, body texts)   *)
(* are TLA+ strings, and the library parsers applied to them are given by  *)
(* what they return on each string of the model's input sets.              *)
(* Option<T> is a sequence of length 0 (None) or 1 (Some).                 *)
(***************************************************************************)
EXTENDS Bags, FiniteSets, Integers, Sequences, TLC

VARIABLES
    given,    \* given[c]: the arguments of Request::new (lines 39-45), when the Request was built by it
    req,      \* req[c]: the Request (lines 10-17) invocation c runs on
    pc,       \* pc[c]: position of invocation c in send_request (lines 58-99)
    out,      \* out[c]: the network calls invocation c has dispatched (line 73), in order
    reply,    \* reply[c]: what the transport answered to invocation c (line 76)
    result    \* result[c]: what send_request ended in: a Response, an Error or an abort

vars == <<given, req, pc, out, reply, result>>

(***************************************************************************)
(* Bounds of the model.                                                    *)
(***************************************************************************)
MaxKeyLen == 3        \* longest header name handed to Request::new (SpecNew)
MaxHeaders == 2       \* most entries of a header mapping
MaxParams == 1        \* most entries of a params mapping
MaxRespHeaders == 2   \* most header lines of a server response
MaxCalls == 3         \* concurrent invocations (SpecConc)

None == <<>>
Some(x) == <<x>>

Calls == 1..MaxCalls
Solo == {1}

(***************************************************************************)
(* Input alphabets and input sets.                                         *)
(***************************************************************************)
KeyChars == {"a", "A", "-", " "}
LF == "LF"            \* the control character \n
xFF == "xFF"          \* the byte 0xFF (not visible ASCII)

Value1337 == <<"1", "3", "3", "7">>
ValueCtl == <<"1", LF>>
Values == {Value1337, ValueCtl}

KeyCamel == <<"a", "A">>
KeyKebab == <<"a", "-", "a">>
KeyEmpty == <<>>
SampleKeys == {KeyCamel, KeyKebab, KeyEmpty}

UrlPlain == "https://example.com/get"
UrlQuery == "https://example.com/get?name=john"
UrlBad == "example.com/get"
Urls == {UrlPlain, UrlQuery, UrlBad}

ParamNames == {"name", "id"}
ParamValues == {"john", "a b"}
Bodies == {None, Some("payload")}

Statuses == {200, 404, 500}
FailStatuses == {500}
RespNames == {"etag", "set-cookie"}
RespValues == {<<"a">>, <<"b">>, <<xFF>>}
JsonObj == "{\"a\":1}"
JsonArr == "[2]"
Texts == {JsonObj, JsonArr, "", "<html>"}

(***************************************************************************)
(* Finite maps and sequences over the input sets.                          *)
(***************************************************************************)
RECURSIVE SubsetsUpTo(_, _)
SubsetsUpTo(S, n) ==
    IF n = 0 THEN {{}}
    ELSE LET prev == SubsetsUpTo(S, n - 1)
         IN  prev \cup {s \cup {x} : s \in prev, x \in S}

MapsUpTo(K, V, n) == UNION {[D -> V] : D \in SubsetsUpTo(K, n)}

SeqsUpTo(S, n) == UNION {[1..m -> S] : m \in 0..n}

Keys(n) == SeqsUpTo(KeyChars, n)

\* The RequestMethod enum.
RequestMethod == {"GET", "POST"}

\* Values of the Request struct with header names from K and url from U.
Requests(K, U) ==
    [body : Bodies,
     headers : MapsUpTo(K, Values, MaxHeaders),
     method : RequestMethod,
     url : U,
     params : MapsUpTo(ParamNames, ParamValues, MaxParams)]

(***************************************************************************)
(* convert_case: k.to_case(Case::Kebab).  The name is split into words at  *)
(* separators (dropped) and at lower|Upper and UPPER|Upper-lower case      *)
(* changes (kept); empty words are dropped; the words are lowercased and   *)
(* joined with hyphens.  The names of the model are made of a lower-case   *)
(* letter, an upper-case letter, the hyphen and the space.                 *)
(***************************************************************************)
IsLower(ch) == ch = "a"
IsUpper(ch) == ch = "A"
IsDelim(ch) == ch \in {"-", "_", " "}
ToLower(ch) == IF ch = "A" THEN "a" ELSE ch

BoundaryAfter(k, i) ==
    /\ i < Len(k)
    /\ \/ IsLower(k[i]) /\ IsUpper(k[i + 1])
       \/ /\ i + 2 <= Len(k)
          /\ IsUpper(k[i]) /\ IsUpper(k[i + 1]) /\ IsLower(k[i + 2])

RECURSIVE SplitWords(_, _, _)
SplitWords(k, i, word) ==
    IF i > Len(k) THEN <<word>>
    ELSE IF IsDelim(k[i]) THEN <<word>> \o SplitWords(k, i + 1, <<>>)
    ELSE IF BoundaryAfter(k, i)
         THEN <<Append(word, k[i])>> \o SplitWords(k, i + 1, <<>>)
         ELSE SplitWords(k, i + 1, Append(word, k[i]))

Words(k) == SelectSeq(SplitWords(k, 1, <<>>), LAMBDA w : w # <<>>)

RECURSIVE JoinHyphen(_)
JoinHyphen(ws) ==
    IF ws = <<>> THEN <<>>
    ELSE IF Len(ws) = 1 THEN ws[1]
    ELSE ws[1] \o <<"-">> \o JoinHyphen(Tail(ws))

LowerWord(w) == [i \in 1..Len(w) |-> ToLower(w[i])]

ToKebab(k) ==
    LET ws == Words(k)
    IN  JoinHyphen([i \in 1..Len(ws) |-> LowerWord(ws[i])])

\* The pairs (kebab name, value) collected into a HashMap: one entry per
\* kebab name; when several given names share a kebab name the entry that
\* the map iteration yields last stays, and that order is unspecified.
KebabCollect(h) ==
    LET names == {ToKebab(k) : k \in DOMAIN h}
    IN  {m \in [names -> {h[k] : k \in DOMAIN h}] :
            \A n \in names : \E k \in DOMAIN h : ToKebab(k) = n /\ h[k] = m[n]}

\* Request::new
NewRequest(a, h) ==
    [body |-> a.body, headers |-> h, method |-> a.method,
     url |-> a.url, params |-> a.params]

(***************************************************************************)
(* The libraries send_request calls.                                       *)
(***************************************************************************)
\* http::HeaderName from k.parse(): the empty name and a name with a
\* character that is no token character are rejected; upper case is stored
\* as lower case.
IsTchar(ch) == ch # " "
ParseHeaderName(k) ==
    IF k = <<>> \/ \E i \in 1..Len(k) : ~IsTchar(k[i]) THEN None
    ELSE Some([i \in 1..Len(k) |-> ToLower(k[i])])

\* http::HeaderValue from v.parse(): control characters are rejected.
ParseHeaderValue(v) ==
    IF \E i \in 1..Len(v) : v[i] = LF THEN None ELSE Some(v)

\* HeaderValue::to_str: only visible ASCII is text.
HeaderToStr(v) ==
    IF \E i \in 1..Len(v) : v[i] \in {LF, xFF} THEN None ELSE Some(v)

\* url::Url::parse on the urls of the model.
ParseUrl(u) ==
    CASE u = UrlPlain -> Some([base |-> UrlPlain, query |-> None])
      [] u = UrlQuery -> Some([base |-> UrlPlain, query |-> Some(<< <<"name", "john">> >>)])
      [] OTHER -> None

\* application/x-www-form-urlencoded serialisation of one name or value.
FormEncode(s) == IF s = "a b" THEN "a+b" ELSE s

EncodePairs(ps) ==
    [i \in 1..Len(ps) |-> <<FormEncode(ps[i][1]), FormEncode(ps[i][2])>>]

QueryPairs(u) == IF u.query = None THEN <<>> ELSE u.query[1]

\* A parse_with_params that sets the query to the given pairs, losing the
\* query the url already has.
ParseWithParamsReplacing(u, ps) ==
    LET p == ParseUrl(u)
    IN  IF p = None THEN None
        ELSE Some([base |-> p[1].base, query |-> Some(EncodePairs(ps))])

\* url::Url::parse_with_params: the pairs ps are appended to the query the
\* url already has.
ParseWithParams(u, ps) ==
    LET p == ParseUrl(u)
    IN  IF p = None THEN None
        ELSE Some([base |-> p[1].base,
                   query |-> Some(QueryPairs(p[1]) \o EncodePairs(ps))])

\* serde_json::from_str on the body texts of the model.
ParseJson(t) ==
    CASE t = JsonObj -> Some([a |-> 1])
      [] t = JsonArr -> Some(<<2>>)
      [] OTHER -> None

\* The orders in which iterating the params HashMap may yield its entries.
PairOrders(params) ==
    LET n == Cardinality(DOMAIN params)
    IN  {[i \in 1..n |-> <<f[i], params[f[i]]>>] :
            f \in {g \in [1..n -> DOMAIN params] :
                      \A i, j \in 1..n : g[i] = g[j] => i = j}}

(***************************************************************************)
(* send_request, up to .send()                                             *)
(***************************************************************************)
ValidHeaders(h) ==
    \A k \in DOMAIN h : ParseHeaderName(k) # None /\ ParseHeaderValue(h[k]) # None

\* The HeaderMap collected from the stored headers: one pair per entry.
RECURSIVE HeaderBag(_, _)
HeaderBag(h, ks) ==
    IF ks = {} THEN EmptyBag
    ELSE LET k == CHOOSE x \in ks : TRUE
         IN  SetToBag({<<ParseHeaderName(k)[1], ParseHeaderValue(h[k])[1]>>})
                (+) HeaderBag(h, ks \ {k})

\* A send_request that merges params into the url whatever the method.
CallUrlMerging(r, ps) == ParseWithParams(r.url, ps)

\* The url of the call, by method (lines 61-66): GET merges params into the
\* url, POST hands the url to the client as it is.
CallUrl(r, ps) ==
    IF r.method = "GET" THEN ParseWithParams(r.url, ps) ELSE ParseUrl(r.url)

\* The body of the call: the builder's .body() is never called.
CallBody(r) == None

\* A send_request that hands header parse failures to the builder instead of
\* unwrapping them, so that they come back from .send() as an Err.
PrepareDeferring(r, ps) ==
    LET u == CallUrl(r, ps)
    IN  IF r.method = "GET" /\ u = None THEN [kind |-> "abort"]
        ELSE IF ~ValidHeaders(r.headers) \/ u = None THEN [kind |-> "rejected"]
        ELSE [kind |-> "call",
              call |-> [method |-> r.method, url |-> u[1],
                        headers |-> HeaderBag(r.headers, DOMAIN r.headers),
                        body |-> CallBody(r)]]

\* What lines 59-73 come to for Request r when params iterates as ps:
\* an abort (an unwrap of a failed parse), a builder that holds an error
\* (client.post of a url that does not parse), or a call.
Prepare(r, ps) ==
    LET u == CallUrl(r, ps)
    IN  IF r.method = "GET" /\ u = None THEN [kind |-> "abort"]
        ELSE IF ~ValidHeaders(r.headers) THEN [kind |-> "abort"]
        ELSE IF u = None THEN [kind |-> "rejected"]
        ELSE [kind |-> "call",
              call |-> [method |-> r.method, url |-> u[1],
                        headers |-> HeaderBag(r.headers, DOMAIN r.headers),
                        body |-> CallBody(r)]]

\* A .send() that retries once.
DispatchedWithRetry(call) == <<call, call>>

\* The network calls .send() dispatches for a prepared call.
Dispatched(call) == <<call>>

(***************************************************************************)
(* send_request, from the transport's answer on                            *)
(***************************************************************************)
Abort == [kind |-> "Abort"]
BuilderError == [ok |-> FALSE, status |-> None, url |-> None]

\* What the transport may answer to a dispatched call: a server response of
\* at most n header lines, whose body text arrives or fails to, or a failure.
Replies(n) ==
    [ok : {TRUE}, status : Statuses,
     headers : SeqsUpTo(RespNames \X RespValues, n),
     body : {None} \cup {Some(t) : t \in Texts}]
    \cup
    [ok : {FALSE}, status : {None} \cup {Some(s) : s \in FailStatuses},
     url : {None, Some(UrlPlain)}]

TextHeaders(hs) == \A i \in 1..Len(hs) : HeaderToStr(hs[i][2]) # None

\* The HashMap collected from the response's header lines: a later line
\* replaces an earlier one of the same name.
RespHeaderMap(hs) ==
    [n \in {hs[i][1] : i \in 1..Len(hs)} |->
        LET last == CHOOSE i \in 1..Len(hs) :
                        /\ hs[i][1] = n
                        /\ \A j \in 1..Len(hs) : hs[j][1] = n => j <= i
        IN  HeaderToStr(hs[last][2])[1]]

\* Lines 92-97: the Error built from a transport failure.
ErrorOf(p) == [kind |-> "Error", status |-> p.status, url |-> p.url]

\* A send_request that turns 4xx and 5xx responses into an Error, as
\* error_for_status would.
BodyOutcomeStatusChecked(p) ==
    IF p.body = None THEN Abort
    ELSE IF ParseJson(p.body[1]) = None THEN Abort
    ELSE IF p.status >= 400
         THEN [kind |-> "Error", status |-> Some(p.status), url |-> None]
    ELSE [kind |-> "Response", status |-> p.status,
          headers |-> RespHeaderMap(p.headers),
          body |-> ParseJson(p.body[1])[1]]

\* Lines 78-90 once response.text() has resolved.
BodyOutcome(p) ==
    IF p.body = None THEN Abort
    ELSE IF ParseJson(p.body[1]) = None THEN Abort
    ELSE [kind |-> "Response", status |-> p.status,
          headers |-> RespHeaderMap(p.headers),
          body |-> ParseJson(p.body[1])[1]]

\* A send_request that keeps the response in a slot shared by all
\* invocations: the response of the lowest-numbered invocation that has one.
ReplyShared(c) ==
    LET d == CHOOSE x \in Calls :
                 /\ reply[x] # None /\ reply[x][1].ok
                 /\ \A y \in Calls :
                        reply[y] # None /\ reply[y][1].ok => x <= y
    IN  reply[d][1]

\* The transport's answer invocation c works with.
ReplyOf(c) == reply[c][1]

(***************************************************************************)
(* State machine.                                                          *)
(***************************************************************************)
Init ==
    /\ given = [c \in Calls |-> None]
    /\ req = [c \in Calls |-> None]
    /\ pc = [c \in Calls |-> "none"]
    /\ out = [c \in Calls |-> <<>>]
    /\ reply = [c \in Calls |-> None]
    /\ result = [c \in Calls |-> None]

\* The caller builds the Request of invocation c with Request::new.
New(c, A) ==
    /\ pc[c] = "none"
    /\ \E a \in A : \E h \in KebabCollect(a.headers) :
          /\ given' = [given EXCEPT ![c] = Some(a)]
          /\ req' = [req EXCEPT ![c] = Some(NewRequest(a, h))]
    /\ pc' = [pc EXCEPT ![c] = "built"]
    /\ UNCHANGED <<out, reply, result>>

\* The caller builds the Request field by field (as the tests do), or the
\* derived Deserialize does.
Construct(c, A) ==
    /\ pc[c] = "none"
    /\ \E a \in A : req' = [req EXCEPT ![c] = Some(a)]
    /\ pc' = [pc EXCEPT ![c] = "built"]
    /\ UNCHANGED <<given, out, reply, result>>

\* send_request runs up to .send(): lines 59-73.
Begin(c) ==
    /\ pc[c] = "built"
    /\ \E ps \in PairOrders(req[c][1].params) :
          LET p == Prepare(req[c][1], ps)
          IN  CASE p.kind = "abort" ->
                     /\ pc' = [pc EXCEPT ![c] = "done"]
                     /\ result' = [result EXCEPT ![c] = Some(Abort)]
                     /\ out' = out
                [] p.kind = "rejected" ->
                     /\ pc' = [pc EXCEPT ![c] = "pending"]
                     /\ UNCHANGED <<result, out>>
                [] p.kind = "call" ->
                     /\ pc' = [pc EXCEPT ![c] = "pending"]
                     /\ out' = [out EXCEPT ![c] = out[c] \o Dispatched(p.call)]
                     /\ result' = result
    /\ UNCHANGED <<given, req, reply>>

\* .send() of a builder that holds an error resolves to that error.
SendRejected(c) ==
    /\ pc[c] = "pending"
    /\ out[c] = <<>>
    /\ reply' = [reply EXCEPT ![c] = Some(BuilderError)]
    /\ result' = [result EXCEPT ![c] = Some(ErrorOf(BuilderError))]
    /\ pc' = [pc EXCEPT ![c] = "done"]
    /\ UNCHANGED <<given, req, out>>

\* The transport reports a failure: lines 92-97.
SendFails(c, P) ==
    /\ pc[c] = "pending"
    /\ out[c] # <<>>
    /\ \E p \in P :
          /\ ~p.ok
          /\ reply' = [reply EXCEPT ![c] = Some(p)]
          /\ result' = [result EXCEPT ![c] = Some(ErrorOf(p))]
    /\ pc' = [pc EXCEPT ![c] = "done"]
    /\ UNCHANGED <<given, req, out>>

\* The server responded: lines 77-88, up to response.text().
SendResponds(c, P) ==
    /\ pc[c] = "pending"
    /\ out[c] # <<>>
    /\ \E p \in P :
          /\ p.ok
          /\ reply' = [reply EXCEPT ![c] = Some(p)]
          /\ IF TextHeaders(p.headers)
             THEN /\ pc' = [pc EXCEPT ![c] = "reading"]
                  /\ result' = result
             ELSE /\ pc' = [pc EXCEPT ![c] = "done"]
                  /\ result' = [result EXCEPT ![c] = Some(Abort)]
    /\ UNCHANGED <<given, req, out>>

\* response.text() resolves: lines 88-90.
BodyRead(c) ==
    /\ pc[c] = "reading"
    /\ result' = [result EXCEPT ![c] = Some(BodyOutcome(ReplyOf(c)))]
    /\ pc' = [pc EXCEPT ![c] = "done"]
    /\ UNCHANGED <<given, req, out, reply>>

Next ==
    \E c \in Solo :
        \/ New(c, Requests(SampleKeys, Urls))
        \/ Construct(c, Requests(SampleKeys, Urls))
        \/ Begin(c)
        \/ SendRejected(c)
        \/ SendFails(c, Replies(MaxRespHeaders))
        \/ SendResponds(c, Replies(MaxRespHeaders))
        \/ BodyRead(c)

Spec == Init /\ [][Next]_vars

NextNew ==
    \E c \in Solo :
        \/ New(c, Requests(Keys(MaxKeyLen), {UrlPlain}))
        \/ Construct(c, Requests(Keys(MaxKeyLen), {UrlPlain}))

SpecNew == Init /\ [][NextNew]_vars

\* Concurrent invocations, each on one of a few Requests, the transport
\* answering each with one of a few replies.
EmptyMap == <<>>
ConcRequests ==
    {[body |-> None, headers |-> EmptyMap, method |-> m, url |-> u,
      params |-> EmptyMap] : m \in RequestMethod, u \in {UrlPlain, UrlBad}}

ConcReplies ==
    {p \in Replies(0) :
        IF p.ok THEN p.status = 200 /\ p.body \in {Some(JsonObj), Some("")}
        ELSE p.status = None /\ p.url = None}

NextConc ==
    \E c \in Calls :
        \/ Construct(c, ConcRequests)
        \/ Begin(c)
        \/ SendRejected(c)
        \/ SendFails(c, ConcReplies)
        \/ SendResponds(c, ConcReplies)
        \/ BodyRead(c)

SpecConc == Init /\ [][NextConc]_vars

(***************************************************************************)
(* The claims.                                                             *)
(***************************************************************************)
Done(c) == pc[c] = "done"
Started(c) == pc[c] \in {"pending", "reading", "done"}
R(c) == req[c][1]
Res(c) == result[c][1]
IsKebab(k) == ToKebab(k) = k

\* C1: for every entry (K, V) of the header mapping passed to Request::new,
\* the constructed Request's headers map the kebab-case form of K to V, and
\* hold no other key; body, method, url and params are stored as given.
C1_NewNormalizesEveryEntry ==
    \A c \in Calls :
        given[c] # None =>
            LET a == given[c][1]
            IN  /\ \A k \in DOMAIN a.headers :
                      /\ ToKebab(k) \in DOMAIN R(c).headers
                      /\ R(c).headers[ToKebab(k)] = a.headers[k]
                /\ DOMAIN R(c).headers = {ToKebab(k) : k \in DOMAIN a.headers}
                /\ R(c).body = a.body
                /\ R(c).method = a.method
                /\ R(c).url = a.url
                /\ R(c).params = a.params

\* C2: every header key held by any Request value is in kebab-case, however
\* the Request was produced.
C2_StoredKeysAreKebab ==
    \A c \in Calls :
        req[c] # None => \A k \in DOMAIN R(c).headers : IsKebab(k)

\* The headers the caller supplied for invocation c: the mapping given to
\* Request::new, or the mapping stored directly.
Supplied(c) == IF given[c] # None THEN given[c][1].headers ELSE R(c).headers

RECURSIVE KebabBag(_, _)
KebabBag(h, ks) ==
    IF ks = {} THEN EmptyBag
    ELSE LET k == CHOOSE x \in ks : TRUE
         IN  SetToBag({<<ToKebab(k), h[k]>>}) (+) KebabBag(h, ks \ {k})

\* C3: the outbound call carries exactly one header pair per caller-supplied
\* entry K -> V, named with the kebab-case form of K and valued V, and no
\* other header.
C3_HeaderPassThrough ==
    \A c \in Calls :
        out[c] # <<>> =>
            out[c][1].headers = KebabBag(Supplied(c), DOMAIN Supplied(c))

\* C4: for every GET Request with a parseable url (and headers the transport
\* accepts) one call goes out, whose url is the Request's url with the query
\* pairs it already had, in place, followed by every entry of params exactly
\* once (form-encoded) and by nothing else.
C4_GetParamsMerged ==
    \A c \in Calls :
        (/\ Started(c) /\ R(c).method = "GET"
         /\ ParseUrl(R(c).url) # None /\ ValidHeaders(R(c).headers))
        => /\ Len(out[c]) = 1
           /\ LET u == ParseUrl(R(c).url)[1]
                  had == QueryPairs(u)
                  q == QueryPairs(out[c][1].url)
                  added == (Len(had) + 1)..Len(q)
              IN  /\ out[c][1].method = "GET"
                  /\ out[c][1].url.base = u.base
                  /\ out[c][1].url.query # None
                  /\ Len(q) = Len(had) + Cardinality(DOMAIN R(c).params)
                  /\ SubSeq(q, 1, Len(had)) = had
                  /\ \A n \in DOMAIN R(c).params :
                        Cardinality({i \in added :
                            q[i] = <<FormEncode(n), FormEncode(R(c).params[n])>>}) = 1

C4_Witness ==
    \E c \in Calls :
        /\ Started(c) /\ R(c).method = "GET" /\ R(c).url = UrlQuery
        /\ R(c).params # EmptyMap /\ Len(out[c]) = 1
        /\ Len(QueryPairs(out[c][1].url)) = 2

\* C5: the url of a POST call is the Request's url as it parses, whatever
\* params holds, and no call, GET or POST, carries the Request's body.
C5_PostIgnoresParamsAndBody ==
    \A c \in Calls :
        out[c] # <<>> =>
            /\ out[c][1].body = None
            /\ R(c).method = "POST" =>
                  /\ out[c][1].method = "POST"
                  /\ Some(out[c][1].url) = ParseUrl(R(c).url)

C5_Witness ==
    \E c \in Calls :
        /\ out[c] # <<>> /\ R(c).method = "POST"
        /\ R(c).params # EmptyMap /\ R(c).body # None

\* The server responded to invocation c and its body text parses as JSON.
RespondedJson(c) ==
    /\ reply[c] # None /\ ReplyOf(c).ok
    /\ ReplyOf(c).body # None /\ ParseJson(ReplyOf(c).body[1]) # None

\* C6 as stated: whenever the server responded with a JSON-decodable body,
\* send_request returns a Response whose status is the server's, whose
\* headers hold every header line's name with its value, and whose body is
\* the parsed document.
C6_ResponseForEveryJsonReply ==
    \A c \in Calls :
        Done(c) /\ RespondedJson(c) =>
            /\ Res(c).kind = "Response"
            /\ Res(c).status = ReplyOf(c).status
            /\ \A i \in 1..Len(ReplyOf(c).headers) :
                  /\ ReplyOf(c).headers[i][1] \in DOMAIN Res(c).headers
                  /\ Res(c).headers[ReplyOf(c).headers[i][1]] = ReplyOf(c).headers[i][2]
            /\ Res(c).body = ParseJson(ReplyOf(c).body[1])[1]

\* C6 amended: whenever the server responded with a JSON-decodable body and
\* header values that are all text, send_request returns a Response, for
\* every status code, whose status is the server's, whose headers hold
\* exactly the names of the server's header lines, each with the value of
\* the last line of that name, and whose body is the parsed document.
C6_ResponseShape ==
    \A c \in Calls :
        Done(c) /\ RespondedJson(c) /\ TextHeaders(ReplyOf(c).headers) =>
            LET hs == ReplyOf(c).headers
            IN  /\ Res(c).kind = "Response"
                /\ Res(c).status = ReplyOf(c).status
                /\ DOMAIN Res(c).headers = {hs[i][1] : i \in 1..Len(hs)}
                /\ \A i \in 1..Len(hs) :
                      (\A j \in (i + 1)..Len(hs) : hs[j][1] # hs[i][1])
                      => Res(c).headers[hs[i][1]] = hs[i][2]
                /\ Res(c).body = ParseJson(ReplyOf(c).body[1])[1]

C6_Witness ==
    \E c \in Calls :
        /\ Done(c) /\ RespondedJson(c)
        /\ Res(c).kind = "Response" /\ Res(c).status = 404
        /\ Len(ReplyOf(c).headers) = 2
        /\ ReplyOf(c).headers[1][1] = ReplyOf(c).headers[2][1]
        /\ ReplyOf(c).headers[1][2] # ReplyOf(c).headers[2][2]

\* C7: whenever the transport reports a failure (of the call, or of reading
\* the response's body), send_request returns an Error, whose status and url
\* are what the transport attributed to the failure.
C7_TransportFailureIsError ==
    \A c \in Calls :
        Done(c) /\ reply[c] # None =>
            /\ ~ReplyOf(c).ok =>
                  /\ Res(c).kind = "Error"
                  /\ Res(c).status = ReplyOf(c).status
                  /\ Res(c).url = ReplyOf(c).url
            /\ (/\ ReplyOf(c).ok /\ TextHeaders(ReplyOf(c).headers)
                /\ ReplyOf(c).body = None)
               => Res(c).kind = "Error"

\* The response to invocation c has a header value that is no text, or a
\* body text that is no JSON.
BadResponse(c) ==
    /\ reply[c] # None /\ ReplyOf(c).ok
    /\ \/ ~TextHeaders(ReplyOf(c).headers)
       \/ ReplyOf(c).body # None /\ ParseJson(ReplyOf(c).body[1]) = None

\* C8 as stated: send_request returns an Error only for a failure of a call
\* the transport made; a caller header that is invalid, a malformed url
\* (GET or POST), a response header that is no text and a body that is no
\* JSON all end in an abort.
C8_DataShapeAlwaysAborts ==
    \A c \in Calls :
        Done(c) =>
            /\ Res(c).kind = "Error" =>
                  reply[c] # None /\ ~ReplyOf(c).ok /\ out[c] # <<>>
            /\ (\/ ~ValidHeaders(R(c).headers)
                \/ ParseUrl(R(c).url) = None
                \/ BadResponse(c))
               => Res(c) = Abort

\* C8 amended: send_request returns an Error only when the transport's
\* .send() reports a failure; an invalid caller header (GET or POST), a
\* malformed url of a GET, a response header that is no text and a body that
\* is no JSON end in an abort; a malformed url of a POST with valid headers
\* is rejected by the transport without a call and ends in an Error with
\* neither status nor url.
C8_FailureClassification ==
    \A c \in Calls :
        Done(c) =>
            /\ Res(c).kind = "Error" => reply[c] # None /\ ~ReplyOf(c).ok
            /\ ~ValidHeaders(R(c).headers) => Res(c) = Abort
            /\ R(c).method = "GET" /\ ParseUrl(R(c).url) = None => Res(c) = Abort
            /\ BadResponse(c) => Res(c) = Abort
            /\ (/\ R(c).method = "POST" /\ ParseUrl(R(c).url) = None
                /\ ValidHeaders(R(c).headers))
               => /\ Res(c) = [kind |-> "Error", status |-> None, url |-> None]
                  /\ out[c] = <<>>

C8_Witness ==
    \E c \in Calls :
        /\ Done(c) /\ R(c).method = "POST" /\ R(c).url = UrlBad
        /\ R(c).headers # EmptyMap /\ Res(c).kind = "Error"

Sendable(c) == ValidHeaders(R(c).headers) /\ ParseUrl(R(c).url) # None

C9_CallCount ==
    \A c \in Calls :
        /\ Len(out[c]) <= 1
        /\ ~Started(c) => out[c] = <<>>
        /\ Started(c) => (Len(out[c]) = 1 <=> Sendable(c))
        /\ Done(c) <=> result[c] # None
        /\ pc[c] = "reading" => reply[c] # None /\ ReplyOf(c).ok

C9_OutcomeIsFinal ==
    \A c \in Calls :
        Done(c) => pc'[c] = pc[c] /\ result'[c] = result[c] /\ out'[c] = out[c]

C10_Determined ==
    \A i, j \in Calls :
        Done(i) /\ Done(j) /\ req[i] = req[j] /\ reply[i] = reply[j]
        => result[i] = result[j]

C10_RequestUnchanged ==
    \A c \in Calls : req[c] # None => req'[c] = req[c]

\* C10: among interleaved invocations, two that ran on equal Requests and got
\* equal replies ended in equal outcomes (so the outcome is a function of
\* the invocation's own Request and reply), and no step changes a Request
\* once it is built.
C10_Stateless == []C10_Determined /\ [][C10_RequestUnchanged]_vars

C10_Witness ==
    \E i, j \in Calls :
        /\ i # j /\ Done(i) /\ Done(j)
        /\ req[i] = req[j] /\ reply[i] = reply[j]
        /\ Res(i).kind = "Response" /\ Res(j).kind = "Response"
        /\ \E k \in Calls : k # i /\ k # j /\ Done(k) /\ result[k] # result[i]
====
